---- MODULE Spec2Model ----
(***************************************************************************)
(* A model of the agent response pipeline of the repository:               *)
(*   - ReActOutputParser.parse               (src/agent_core.py)           *)
(*   - handle_query, its attachment files    (src/agent_core.py)           *)
(*   - _try_extract_json_from_text, run_query (src/main.py)                *)
(*                                                                         *)
(* Text is a sequence of tokens.  Every token is the piece of text it      *)
(* stands for, so a token sequence is a concrete Python string (the        *)
(* concatenation of its tokens).  Adjacent digit and word tokens run       *)
(* together into one number or name, as their characters do.               *)
(***************************************************************************)
EXTENDS Naturals, Sequences, FiniteSets, TLC

VARIABLES
    text,         \* parse: the model utterance handed to the parser
    decision,     \* parse: what parse returned or raised
    output_raw,   \* run_query: the agent's terminal answer string
    payload,      \* run_query: the JSON value output_raw serializes, if any
    parsed,       \* run_query: what _try_extract_json_from_text did
    response,     \* run_query: the HTTP response
    pc,           \* handle_query: each request's position
    attachments,  \* handle_query: each request's attachments argument
    cursor,       \* handle_query: index into the loop being executed
    file_paths,   \* handle_query: each request's file_paths dict
    attempt,      \* handle_query: each request's retry loop counter
    disk          \* the shared working directory: path -> content

parseVars == <<text, decision>>
queryVars == <<output_raw, payload, parsed, response>>
hqVars == <<pc, attachments, cursor, file_paths, attempt, disk>>
vars == <<text, decision, output_raw, payload, parsed, response,
          pc, attachments, cursor, file_paths, attempt, disk>>

(***************************************************************************)
(* Tokens                                                                  *)
(***************************************************************************)
WS == {" ", "\n"}
Digit == {"1", "2", "3", "4"}
Letter ==
    {"x", "null", "true", "false", "json", "Action",
     "Here", "is", "your", "answer", "The", "result"}
SQ == {"'a'", "'b'"}
DQ == {"\"a\"", "\"b\"", "\"\"", "\"X\"", "\"p\"", "\"action\"", "\"action_input\""}
Punct == {"[", "]", "{", "}", ",", ":"}
\* one backquote character (written out: the character cannot stand in a string here)
Backtick == "<backquote>"
FinalAnswerMarker == "Final Answer:"

\* the characters between the quotes of a string token
StrText(tok) ==
    CASE tok \in {"'a'", "\"a\""} -> "a"
      [] tok \in {"'b'", "\"b\""} -> "b"
      [] tok = "\"\"" -> ""
      [] tok = "\"X\"" -> "X"
      [] tok = "\"p\"" -> "p"
      [] tok = "\"action\"" -> "action"
      [] tok = "\"action_input\"" -> "action_input"

RECURSIVE Join(_)
Join(toks) == IF toks = <<>> THEN "" ELSE Head(toks) \o Join(Tail(toks))

RECURSIVE Flatten(_)
Flatten(parts) == IF parts = <<>> THEN <<>> ELSE Head(parts) \o Flatten(Tail(parts))

(***************************************************************************)
(* str.strip() and str.strip(chars)                                        *)
(***************************************************************************)
RECURSIVE LStrip(_, _)
LStrip(t, chars) ==
    IF t # <<>> /\ Head(t) \in chars THEN LStrip(Tail(t), chars) ELSE t

RECURSIVE RStrip(_, _)
RStrip(t, chars) ==
    IF t # <<>> /\ t[Len(t)] \in chars THEN RStrip(SubSeq(t, 1, Len(t) - 1), chars) ELSE t

StripChars(t, chars) == RStrip(LStrip(t, chars), chars)
Strip(t) == StripChars(t, WS)

(***************************************************************************)
(* Python values.  Every value is a record of the same shape:              *)
(*   k      the type: none, bool, int, str, list, dict, set, tuple         *)
(*          (and, for syntax trees only: name, subscript; pair: one        *)
(*          key/value entry of a dict)                                     *)
(*   s      the text of a scalar                                           *)
(*   items  the elements of a container                                    *)
(***************************************************************************)
Mk(k, s, items) == [k |-> k, s |-> s, items |-> items]
NoneV == Mk("none", "", <<>>)
Bool(s) == Mk("bool", s, <<>>)
Int(s) == Mk("int", s, <<>>)
Str(s) == Mk("str", s, <<>>)
List(items) == Mk("list", "", items)
Dict(pairs) == Mk("dict", "", pairs)
SetV(items) == Mk("set", "", items)
TupleV(items) == Mk("tuple", "", items)
Pair(key, val) == Mk("pair", "", <<key, val>>)
Absent == Mk("absent", "", <<>>)

\* d[key] = val on a dict's entries: a key already there keeps its place
DictPut(pairs, key, val) ==
    IF \E i \in 1..Len(pairs) : pairs[i].items[1] = key
    THEN [i \in 1..Len(pairs) |->
            IF pairs[i].items[1] = key THEN Pair(key, val) ELSE pairs[i]]
    ELSE Append(pairs, Pair(key, val))

HasKey(d, key) == \E i \in 1..Len(d.items) : d.items[i].items[1] = Str(key)

\* dict.get(key): None when the key is missing
DictGet(d, key) ==
    IF HasKey(d, key)
    THEN LET i == CHOOSE j \in 1..Len(d.items) : d.items[j].items[1] = Str(key)
         IN  d.items[i].items[2]
    ELSE NoneV

SetAdd(items, v) ==
    IF \E i \in 1..Len(items) : items[i] = v THEN items ELSE Append(items, v)

\* bool(v)
Truthy(v) ==
    CASE v.k = "none" -> FALSE
      [] v.k = "bool" -> v.s = "true"
      [] v.k = "int" -> TRUE
      [] v.k = "str" -> v.s # ""
      [] OTHER -> v.items # <<>>

Hashable(v) == v.k \notin {"list", "dict", "set"}

(***************************************************************************)
(* Lexing, shared by the JSON decoder and the Python parser.               *)
(***************************************************************************)
WordTok == Digit \cup Letter

RECURSIVE RunLen(_)
RunLen(t) == IF t # <<>> /\ Head(t) \in WordTok THEN 1 + RunLen(Tail(t)) ELSE 0

Lexeme(t, s) == [t |-> t, s |-> s]

WordLexeme(run) ==
    IF \A i \in 1..Len(run) : run[i] \in Digit THEN Lexeme("num", Join(run))
    ELSE IF Head(run) \in Digit THEN Lexeme("bad", Join(run))
    ELSE Lexeme("name", Join(run))

RECURSIVE Lex(_)
Lex(t) ==
    IF t = <<>> THEN <<>>
    ELSE LET h == Head(t) IN
         IF h \in WS THEN Lex(Tail(t))
         ELSE IF h \in WordTok
              THEN LET n == RunLen(t)
                   IN  <<WordLexeme(SubSeq(t, 1, n))>> \o Lex(SubSeq(t, n + 1, Len(t)))
         ELSE IF h \in SQ THEN <<Lexeme("sq", StrText(h))>> \o Lex(Tail(t))
         ELSE IF h \in DQ THEN <<Lexeme("dq", StrText(h))>> \o Lex(Tail(t))
         ELSE IF h \in Punct THEN <<Lexeme(h, h)>> \o Lex(Tail(t))
         ELSE <<Lexeme("bad", h)>> \o Lex(Tail(t))

At(lx, i) == IF i >= 1 /\ i <= Len(lx) THEN lx[i].t ELSE "eof"

Ok(v, pos) == [ok |-> TRUE, v |-> v, pos |-> pos]
Fail == [ok |-> FALSE, v |-> NoneV, pos |-> 0]

(***************************************************************************)
(* json.loads                                                              *)
(***************************************************************************)
RECURSIVE JValue(_, _)
RECURSIVE JElements(_, _, _)
RECURSIVE JMembers(_, _, _)

JValue(lx, i) ==
    LET t == At(lx, i) IN
    CASE t = "num" -> Ok(Int(lx[i].s), i + 1)
      [] t = "dq" -> Ok(Str(lx[i].s), i + 1)
      [] t = "name" ->
            IF lx[i].s = "null" THEN Ok(NoneV, i + 1)
            ELSE IF lx[i].s \in {"true", "false"} THEN Ok(Bool(lx[i].s), i + 1)
            ELSE Fail
      [] t = "[" ->
            IF At(lx, i + 1) = "]" THEN Ok(List(<<>>), i + 2)
            ELSE JElements(lx, i + 1, <<>>)
      [] t = "{" ->
            IF At(lx, i + 1) = "}" THEN Ok(Dict(<<>>), i + 2)
            ELSE JMembers(lx, i + 1, <<>>)
      [] OTHER -> Fail

JElements(lx, i, acc) ==
    LET e == JValue(lx, i) IN
    IF ~e.ok THEN Fail
    ELSE IF At(lx, e.pos) = "," THEN JElements(lx, e.pos + 1, Append(acc, e.v))
    ELSE IF At(lx, e.pos) = "]" THEN Ok(List(Append(acc, e.v)), e.pos + 1)
    ELSE Fail

JMembers(lx, i, acc) ==
    IF At(lx, i) # "dq" \/ At(lx, i + 1) # ":" THEN Fail
    ELSE LET e == JValue(lx, i + 2) IN
         IF ~e.ok THEN Fail
         ELSE LET d == DictPut(acc, Str(lx[i].s), e.v) IN
              IF At(lx, e.pos) = "," THEN JMembers(lx, e.pos + 1, d)
              ELSE IF At(lx, e.pos) = "}" THEN Ok(Dict(d), e.pos + 1)
              ELSE Fail

Returned(v) == [kind |-> "return", v |-> v, exc |-> ""]
Raised(exc) == [kind |-> "raise", v |-> NoneV, exc |-> exc]

json_loads(t) ==
    LET lx == Lex(t)
        r == JValue(lx, 1)
    IN  IF r.ok /\ r.pos = Len(lx) + 1 THEN Returned(r.v) ELSE Raised("JSONDecodeError")

(***************************************************************************)
(* ast.literal_eval: ast.parse in eval mode (a SyntaxError when the text   *)
(* is no expression), then the conversion of the syntax tree (a ValueError *)
(* for a node that is no literal, a TypeError for an unhashable set        *)
(* element or dict key).                                                   *)
(*                                                                         *)
(* The text is read in one pass by a pushdown machine.  Its stack holds    *)
(* one frame per open bracket (and one for the whole text):                *)
(*   kind    top, list, brace (a "{" not yet known to open a dict or a     *)
(*           set), dict, set, sub (the brackets of a subscript)            *)
(*   items   the elements converted so far                                 *)
(*   key     the dict key waiting for its value                            *)
(*   colons  sub: the colons of the slice being read                       *)
(*   n       sub: the slices read; top: 1 once a comma made it a tuple     *)
(*   err     the first error the conversion of the elements meets          *)
(* cur is the expression just read (Absent when an operand is due) and     *)
(* cerr the error its conversion raises.  The conversion visits the tree   *)
(* depth first, left to right, and hashes a set element or a dict key as   *)
(* the element or the entry is complete; it does not look inside a         *)
(* subscript.                                                              *)
(***************************************************************************)
Frame(kind) == [kind |-> kind, items |-> <<>>, key |-> Absent, colons |-> 0, n |-> 0, err |-> ""]

Machine(stack, cur, cerr, bad) == [stack |-> stack, cur |-> cur, cerr |-> cerr, bad |-> bad]

FirstErr(a, b) == IF a # "" THEN a ELSE b

\* the frame with one more element
AddItem(f, v, verr) ==
    [f EXCEPT
        !.items = IF f.kind \in {"set", "brace"} THEN SetAdd(f.items, v) ELSE Append(f.items, v),
        !.err = FirstErr(f.err, FirstErr(verr,
                    IF f.kind \in {"set", "brace"} /\ ~Hashable(v) THEN "TypeError" ELSE ""))]

\* the dict frame with the entry of its waiting key
AddEntry(f, v, verr) ==
    [f EXCEPT
        !.items = DictPut(f.items, f.key, v),
        !.key = Absent,
        !.err = FirstErr(f.err, FirstErr(verr, IF ~Hashable(f.key) THEN "TypeError" ELSE ""))]

Top(m) == m.stack[Len(m.stack)]
Below(m) == SubSeq(m.stack, 1, Len(m.stack) - 1)
Replace(m, f) == Machine(Append(Below(m), f), Absent, "", FALSE)
Push(m, kind) == Machine(Append(m.stack, Frame(kind)), Absent, "", FALSE)
Close(m, v, verr) == Machine(Below(m), v, verr, FALSE)
Broken(m) == Machine(m.stack, m.cur, m.cerr, TRUE)

\* a token where an operand is due
StepOperand(m, l) ==
    LET f == Top(m) IN
    CASE l.t = "num" -> Machine(m.stack, Int(l.s), "", FALSE)
      [] l.t \in {"sq", "dq"} -> Machine(m.stack, Str(l.s), "", FALSE)
      [] l.t = "name" -> Machine(m.stack, Mk("name", l.s, <<>>), "ValueError", FALSE)
      [] l.t = "[" -> Push(m, "list")
      [] l.t = "{" -> Push(m, "brace")
      [] l.t = "]" ->
            IF f.kind = "list" THEN Close(m, List(f.items), f.err)
            ELSE IF f.kind = "sub" /\ (f.colons > 0 \/ f.n > 0)
                 THEN Close(m, Mk("subscript", "", <<>>), "ValueError")
            ELSE Broken(m)
      [] l.t = "}" ->
            IF f.kind = "brace" THEN Close(m, Dict(<<>>), "")
            ELSE IF f.kind = "set" THEN Close(m, SetV(f.items), f.err)
            ELSE IF f.kind = "dict" /\ f.key = Absent THEN Close(m, Dict(f.items), f.err)
            ELSE Broken(m)
      [] l.t = ":" ->
            IF f.kind = "sub" /\ f.colons < 2 THEN Replace(m, [f EXCEPT !.colons = @ + 1])
            ELSE Broken(m)
      [] l.t = "," ->
            IF f.kind = "sub" /\ f.colons > 0 THEN Replace(m, [f EXCEPT !.colons = 0, !.n = @ + 1])
            ELSE Broken(m)
      [] l.t = "eof" ->
            IF f.kind = "top" /\ f.n > 0 THEN Close(m, TupleV(f.items), f.err)
            ELSE Broken(m)
      [] OTHER -> Broken(m)

\* a token after an expression
StepAfter(m, l) ==
    LET f == Top(m) IN
    CASE l.t \in {"sq", "dq"} ->
            IF m.cur.k = "str" THEN Machine(m.stack, Str(m.cur.s \o l.s), "", FALSE)
            ELSE Broken(m)
      [] l.t = "[" -> Push(m, "sub")
      [] l.t = "," ->
            IF f.kind \in {"list", "set"} THEN Replace(m, AddItem(f, m.cur, m.cerr))
            ELSE IF f.kind = "top" THEN Replace(m, [AddItem(f, m.cur, m.cerr) EXCEPT !.n = 1])
            ELSE IF f.kind = "brace"
                 THEN Replace(m, [AddItem(f, m.cur, m.cerr) EXCEPT !.kind = "set"])
            ELSE IF f.kind = "dict" /\ f.key # Absent THEN Replace(m, AddEntry(f, m.cur, m.cerr))
            ELSE IF f.kind = "sub" THEN Replace(m, [f EXCEPT !.colons = 0, !.n = @ + 1])
            ELSE Broken(m)
      [] l.t = ":" ->
            IF f.kind = "brace" \/ (f.kind = "dict" /\ f.key = Absent)
            THEN Replace(m, [f EXCEPT !.kind = "dict", !.key = m.cur,
                                      !.err = FirstErr(f.err, m.cerr)])
            ELSE IF f.kind = "sub" /\ f.colons < 2 THEN Replace(m, [f EXCEPT !.colons = @ + 1])
            ELSE Broken(m)
      [] l.t = "]" ->
            IF f.kind = "list"
            THEN LET g == AddItem(f, m.cur, m.cerr) IN Close(m, List(g.items), g.err)
            ELSE IF f.kind = "sub" THEN Close(m, Mk("subscript", "", <<>>), "ValueError")
            ELSE Broken(m)
      [] l.t = "}" ->
            IF f.kind \in {"brace", "set"}
            THEN LET g == AddItem(f, m.cur, m.cerr) IN Close(m, SetV(g.items), g.err)
            ELSE IF f.kind = "dict" /\ f.key # Absent
                 THEN LET g == AddEntry(f, m.cur, m.cerr) IN Close(m, Dict(g.items), g.err)
            ELSE Broken(m)
      [] l.t = "eof" ->
            IF f.kind # "top" THEN Broken(m)
            ELSE IF f.n > 0
                 THEN LET g == AddItem(f, m.cur, m.cerr) IN Close(m, TupleV(g.items), g.err)
            ELSE Close(m, m.cur, m.cerr)
      [] OTHER -> Broken(m)

Step(m, l) == IF m.cur = Absent THEN StepOperand(m, l) ELSE StepAfter(m, l)

RECURSIVE Run(_, _, _)
Run(lx, i, m) ==
    IF m.bad THEN m
    ELSE IF i > Len(lx) THEN Step(m, Lexeme("eof", ""))
    ELSE Run(lx, i + 1, Step(m, lx[i]))

\* a line break outside every bracket ends the expression: text after it is
\* a syntax error (t is stripped: text follows every line break in it)
TopLevelNewline(t) ==
    \E i \in 1..Len(t) :
        /\ t[i] = "\n"
        /\ Cardinality({j \in 1..i : t[j] \in {"[", "{"}})
             <= Cardinality({j \in 1..i : t[j] \in {"]", "}"}})

literal_eval(t) ==
    LET m == Run(Lex(t), 1, Machine(<<Frame("top")>>, Absent, "", FALSE)) IN
    IF TopLevelNewline(t) \/ m.bad THEN Raised("SyntaxError")
    ELSE IF m.cerr # "" THEN Raised(m.cerr)
    ELSE Returned(m.cur)

(***************************************************************************)
(* _try_extract_json_from_text (src/main.py)                               *)
(***************************************************************************)
\* re.search of open, \s*, [\s\S]*? and close: the leftmost open that has a
\* close after it, up to the first such close; <<>> when there is no match
re_search(s, open, close) ==
    LET starts == {i \in 1..Len(s) : s[i] = open /\ \E j \in (i + 1)..Len(s) : s[j] = close} IN
    IF starts = {} THEN <<>>
    ELSE LET i == CHOOSE a \in starts : \A b \in starts : a <= b
             ends == {j \in (i + 1)..Len(s) : s[j] = close}
             j == CHOOSE a \in ends : \A b \in ends : a <= b
         IN  SubSeq(s, i, j)

\* patterns with the object pattern first
patterns_object_first == << <<"{", "}">>, <<"[", "]">> >>

patterns == << <<"[", "]">>, <<"{", "}">> >>

Outcome(kind, v, exc, step) == [kind |-> kind, v |-> v, exc |-> exc, step |-> step]

\* what one pattern of the last resort yields: a value, or nothing (the
\* pattern does not match, or its match parses neither way)
extract_with(s, pat) ==
    LET m == re_search(s, pat[1], pat[2]) IN
    IF m = <<>> THEN Raised("no match")
    ELSE LET candidate == StripChars(Strip(m), {Backtick})
             strict == json_loads(candidate)
         IN  IF strict.kind = "return" THEN strict ELSE literal_eval(candidate)

RECURSIVE extract_loop(_, _)
extract_loop(s, n) ==
    IF n > Len(patterns) THEN Outcome("return", NoneV, "", 4)
    ELSE LET r == extract_with(s, patterns[n]) IN
         IF r.kind = "return" THEN Outcome("return", r.v, "", 3)
         ELSE extract_loop(s, n + 1)

try_extract_json_from_text(s) ==
    LET s_strip == Strip(s)
        strict == json_loads(s_strip)
    IN  IF strict.kind = "return" THEN Outcome("return", strict.v, "", 1)
        ELSE LET relaxed == literal_eval(s_strip) IN
             IF relaxed.kind = "return" /\ relaxed.v.k \in {"dict", "list"}
             THEN Outcome("return", relaxed.v, "", 2)
             ELSE IF relaxed.kind = "raise" /\ relaxed.exc \notin {"ValueError", "SyntaxError"}
             THEN Outcome("raise", NoneV, relaxed.exc, 2)
             ELSE extract_loop(s, 1)

(***************************************************************************)
(* json.dumps, and what JSONResponse can render                            *)
(***************************************************************************)
DQToken(s) == CHOOSE tok \in DQ : StrText(tok) = s

RECURSIVE Dumps(_)
RECURSIVE DumpsItems(_)
DumpsItems(items) ==
    IF items = <<>> THEN <<>>
    ELSE LET h == Head(items)
             one == IF h.k = "pair"
                    THEN Dumps(h.items[1]) \o <<":", " ">> \o Dumps(h.items[2])
                    ELSE Dumps(h)
         IN  IF Len(items) = 1 THEN one ELSE one \o <<",", " ">> \o DumpsItems(Tail(items))

Dumps(v) ==
    CASE v.k = "none" -> <<"null">>
      [] v.k = "bool" -> <<v.s>>
      [] v.k = "int" -> <<v.s>>
      [] v.k = "str" -> <<DQToken(v.s)>>
      [] v.k = "list" -> <<"[">> \o DumpsItems(v.items) \o <<"]">>
      [] v.k = "dict" -> <<"{">> \o DumpsItems(v.items) \o <<"}">>

\* json.dumps raises TypeError for a set, and for a dict key that is not a
\* str, int, float, bool or None
RECURSIVE Serializable(_)
Serializable(v) ==
    CASE v.k \in {"none", "bool", "int", "str"} -> TRUE
      [] v.k \in {"list", "tuple"} -> \A i \in 1..Len(v.items) : Serializable(v.items[i])
      [] v.k = "dict" ->
            \A i \in 1..Len(v.items) :
                /\ v.items[i].items[1].k \in {"none", "bool", "int", "str"}
                /\ Serializable(v.items[i].items[2])
      [] OTHER -> FALSE

(***************************************************************************)
(* run_query (src/main.py), from the agent's terminal string on            *)
(***************************************************************************)
Response(status, body) == [status |-> status, body |-> body]
NoResponse == Response(0, Absent)

JSONResponse(content) ==
    IF Serializable(content) THEN Response(200, content)
    ELSE Response(500, Str("TypeError"))

\* respond with "if parsed:" in place of "if parsed is not None:"
respond_truthy(raw, p) ==
    IF p.kind = "raise" THEN Response(500, Str(p.exc))
    ELSE IF Truthy(p.v) THEN JSONResponse(p.v)
    ELSE JSONResponse(Dict(<<Pair(Str("output"), Str(Join(raw)))>>))

respond(raw, p) ==
    IF p.kind = "raise" THEN Response(500, Str(p.exc))
    ELSE IF p.v # NoneV THEN JSONResponse(p.v)
    ELSE JSONResponse(Dict(<<Pair(Str("output"), Str(Join(raw)))>>))

(***************************************************************************)
(* ReActOutputParser.parse (src/agent_core.py)                             *)
(***************************************************************************)
\* str.split(sep) for a one-token separator
RECURSIVE Split(_, _)
Split(t, sep) ==
    IF \A i \in 1..Len(t) : t[i] # sep THEN <<t>>
    ELSE LET i == CHOOSE a \in 1..Len(t) :
                     t[a] = sep /\ \A b \in 1..(a - 1) : t[b] # sep
         IN  <<SubSeq(t, 1, i - 1)>> \o Split(SubSeq(t, i + 1, Len(t)), sep)

RECURSIVE SkipWS(_, _)
SkipWS(t, i) == IF i <= Len(t) /\ t[i] \in WS THEN SkipWS(t, i + 1) ELSE i

IsFence(t, i) ==
    i + 2 <= Len(t) /\ t[i] = Backtick /\ t[i + 1] = Backtick /\ t[i + 2] = Backtick

\* where the text after Action\s*:\s* and the opening json fence starts,
\* for a match that starts at i; 0 when the label or the fence is not there
ActionBodyStart(t, i) ==
    IF t[i] # "Action" THEN 0
    ELSE LET c == SkipWS(t, i + 1) IN
         IF c > Len(t) \/ t[c] # ":" THEN 0
         ELSE LET f == SkipWS(t, c + 1) IN
              IF IsFence(t, f) /\ f + 3 <= Len(t) /\ t[f + 3] = "json" THEN f + 4 ELSE 0

\* re.search(r"Action\s*:\s*(fence)json(.*?)(fence)", text, re.DOTALL).group(1),
\* as [found, group]
action_json_match(t) ==
    LET starts == {i \in 1..Len(t) :
                       /\ ActionBodyStart(t, i) # 0
                       /\ \E j \in ActionBodyStart(t, i)..Len(t) : IsFence(t, j)} IN
    IF starts = {} THEN [found |-> FALSE, group |-> <<>>]
    ELSE LET i == CHOOSE a \in starts : \A b \in starts : a <= b
             from == ActionBodyStart(t, i)
             ends == {j \in from..Len(t) : IsFence(t, j)}
             j == CHOOSE a \in ends : \A b \in ends : a <= b
         IN  [found |-> TRUE, group |-> SubSeq(t, from, j - 1)]

AgentFinish(output) ==
    [kind |-> "Finish", output |-> output, tool |-> Absent, tool_input |-> Absent, exc |-> ""]
AgentAction(tool, tool_input) ==
    [kind |-> "Action", output |-> <<>>, tool |-> tool, tool_input |-> tool_input, exc |-> ""]
ParseRaised(exc) ==
    [kind |-> "raise", output |-> <<>>, tool |-> Absent, tool_input |-> Absent, exc |-> exc]
NoDecision ==
    [kind |-> "none", output |-> <<>>, tool |-> Absent, tool_input |-> Absent, exc |-> ""]

\* final_answer with split(...)[1] in place of split(...)[-1]
final_answer_first(t) ==
    LET pieces == Split(t, FinalAnswerMarker) IN Strip(pieces[2])

\* the final-answer text: what follows the last marker
final_answer(t) ==
    LET pieces == Split(t, FinalAnswerMarker) IN Strip(pieces[Len(pieces)])

\* action_ok with "and action_input" in place of "and action_input is not None"
action_ok_truthy(action, action_input) == Truthy(action) /\ Truthy(action_input)

\* the condition under which the action block is accepted
action_ok(action, action_input) == Truthy(action) /\ action_input # NoneV

\* the try block of parse, on the text of the fenced block
parse_action(t, json_str) ==
    LET loaded == json_loads(json_str) IN
    IF loaded.kind = "raise" THEN AgentFinish(Strip(t))
    ELSE IF loaded.v.k # "dict" THEN ParseRaised("AttributeError")
    ELSE LET action == DictGet(loaded.v, "action")
             action_input == DictGet(loaded.v, "action_input")
         IN  IF action_ok(action, action_input) THEN AgentAction(action, action_input)
             ELSE AgentFinish(Strip(t))

parse(t) ==
    IF \E i \in 1..Len(t) : t[i] = FinalAnswerMarker THEN AgentFinish(final_answer(t))
    ELSE LET m == action_json_match(t) IN
         IF m.found THEN parse_action(t, Strip(m.group))
         ELSE AgentFinish(Strip(t))

(***************************************************************************)
(* handle_query (src/agent_core.py): the attachment files of concurrent    *)
(* requests.  main.py runs each call on a thread of the default executor,  *)
(* so the steps of two calls interleave; the working directory is shared.  *)
(***************************************************************************)
Requests == {"r1", "r2"}
preferred_field_names == {"questions.txt", "question", "questions", "question.txt"}
max_retries == 3
MaxAttachments == 1

\* one item of the attachments dict; filename "" stands for no filename
Entry(field, filename, has_bytes) ==
    [field |-> field, filename |-> filename, has_bytes |-> has_bytes]

Entries ==
    { Entry("questions.txt", "q.txt", TRUE),
      Entry("data", "a.csv", TRUE),
      Entry("data", "b.csv", TRUE),
      Entry("extra", "a.csv", TRUE),
      Entry("extra", "", TRUE),
      Entry("extra", "b.csv", FALSE) }

Filenames == {e.filename : e \in Entries} \ {""}

\* the attachments dicts: items in insertion order, the fields distinct
AttachmentDicts ==
    {d \in UNION {[1..n -> Entries] : n \in 0..MaxAttachments} :
        \A i, j \in 1..Len(d) : i # j => d[i].field # d[j].field}

\* path_of with one fixed name for every upload
path_fixed(filename) == "./upload"

\* os.path.join('.', filename)
path_of(filename) == "./" \o filename

Paths == {path_of(f) : f \in Filenames}

NoFile == [exists |-> FALSE, owner |-> "", att |-> 0, full |-> FALSE]
File(owner, att, full) == [exists |-> TRUE, owner |-> owner, att |-> att, full |-> full]

\* the item the first loop is at, and whether the loop saves it
Current(r) == attachments[r][cursor[r]]
Saves(e) == e.field \notin preferred_field_names /\ e.filename # "" /\ e.has_bytes

HQInit ==
    /\ attachments \in [Requests -> AttachmentDicts]
    /\ pc = [r \in Requests |-> "save"]
    /\ cursor = [r \in Requests |-> 1]
    /\ file_paths = [r \in Requests |-> <<>>]
    /\ attempt = [r \in Requests |-> 0]
    /\ disk = [p \in Paths |-> NoFile]

\* an iteration of the first loop that saves nothing
SkipAttachment(r) ==
    /\ pc[r] = "save"
    /\ cursor[r] <= Len(attachments[r])
    /\ ~Saves(Current(r))
    /\ cursor' = [cursor EXCEPT ![r] = @ + 1]
    /\ UNCHANGED <<pc, attachments, file_paths, attempt, disk>>

\* open(path, 'wb'): the file is created, or truncated if it is there
OpenAttachment(r) ==
    /\ pc[r] = "save"
    /\ cursor[r] <= Len(attachments[r])
    /\ Saves(Current(r))
    /\ disk' = [disk EXCEPT ![path_of(Current(r).filename)] = File(r, cursor[r], FALSE)]
    /\ pc' = [pc EXCEPT ![r] = "write"]
    /\ UNCHANGED <<attachments, cursor, file_paths, attempt>>

\* f.write(info['bytes']), the close, and file_paths[filename] = path.
\* A file unlinked since the open stays off the path.  When another request
\* has written through its own handle since, the bytes of the two overlay:
\* this request's, or a mix of both when the other's were longer.
WriteAttachment(r) ==
    /\ pc[r] = "write"
    /\ LET name == Current(r).filename
           p == path_of(name)
       IN  /\ \/ /\ ~disk[p].exists
                 /\ UNCHANGED disk
              \/ /\ disk[p].exists
                 /\ disk' = [disk EXCEPT ![p] = File(r, cursor[r], TRUE)]
              \/ /\ disk[p].exists /\ disk[p].full
                 /\ disk' = [disk EXCEPT ![p] = File("mixed", 0, TRUE)]
           /\ file_paths' = [file_paths EXCEPT ![r] =
                                IF \E i \in 1..Len(@) : @[i] = name THEN @ ELSE Append(@, name)]
    /\ cursor' = [cursor EXCEPT ![r] = @ + 1]
    /\ pc' = [pc EXCEPT ![r] = "save"]
    /\ UNCHANGED <<attachments, attempt>>

\* the first loop is over: the agent is built and the retry loop entered
BuildAgent(r) ==
    /\ pc[r] = "save"
    /\ cursor[r] > Len(attachments[r])
    /\ pc' = [pc EXCEPT ![r] = "invoke"]
    /\ attempt' = [attempt EXCEPT ![r] = 0]
    /\ UNCHANGED <<attachments, cursor, file_paths, disk>>

\* agent_executor.invoke is called: the agent runs
InvokeAgent(r) ==
    /\ pc[r] = "invoke"
    /\ pc' = [pc EXCEPT ![r] = "agent"]
    /\ UNCHANGED <<attachments, cursor, file_paths, attempt, disk>>

\* invoke returns: break, and on to the cleanup loop
AgentReturns(r) ==
    /\ pc[r] = "agent"
    /\ pc' = [pc EXCEPT ![r] = "cleanup"]
    /\ cursor' = [cursor EXCEPT ![r] = 1]
    /\ UNCHANGED <<attachments, file_paths, attempt, disk>>

\* invoke raises with rate_limit_exceeded: sleep, then raise on the last
\* attempt and go round again on the others
AgentRateLimited(r) ==
    /\ pc[r] = "agent"
    /\ IF attempt[r] = max_retries - 1
       THEN /\ pc' = [pc EXCEPT ![r] = "raised"]
            /\ UNCHANGED attempt
       ELSE /\ pc' = [pc EXCEPT ![r] = "invoke"]
            /\ attempt' = [attempt EXCEPT ![r] = @ + 1]
    /\ UNCHANGED <<attachments, cursor, file_paths, disk>>

\* invoke raises anything else: raise e
AgentFails(r) ==
    /\ pc[r] = "agent"
    /\ pc' = [pc EXCEPT ![r] = "raised"]
    /\ UNCHANGED <<attachments, cursor, file_paths, attempt, disk>>

\* os.path.exists(path) in the cleanup loop
CheckExists(r) ==
    /\ pc[r] = "cleanup"
    /\ cursor[r] <= Len(file_paths[r])
    /\ IF disk[path_of(file_paths[r][cursor[r]])].exists
       THEN /\ pc' = [pc EXCEPT ![r] = "remove"]
            /\ UNCHANGED cursor
       ELSE /\ cursor' = [cursor EXCEPT ![r] = @ + 1]
            /\ UNCHANGED pc
    /\ UNCHANGED <<attachments, file_paths, attempt, disk>>

\* os.remove(path): FileNotFoundError when the file went since the check
RemoveFile(r) ==
    /\ pc[r] = "remove"
    /\ LET p == path_of(file_paths[r][cursor[r]]) IN
       IF disk[p].exists
       THEN /\ disk' = [disk EXCEPT ![p] = NoFile]
            /\ cursor' = [cursor EXCEPT ![r] = @ + 1]
            /\ pc' = [pc EXCEPT ![r] = "cleanup"]
       ELSE /\ pc' = [pc EXCEPT ![r] = "raised"]
            /\ UNCHANGED <<cursor, disk>>
    /\ UNCHANGED <<attachments, file_paths, attempt>>

\* return result
ReturnResult(r) ==
    /\ pc[r] = "cleanup"
    /\ cursor[r] > Len(file_paths[r])
    /\ pc' = [pc EXCEPT ![r] = "done"]
    /\ UNCHANGED <<attachments, cursor, file_paths, attempt, disk>>

(***************************************************************************)
(* The inputs of the parser and of the recoverer                           *)
(***************************************************************************)
MaxParts == 3
MaxLen == 4
MaxNodes == 3

Fence == <<Backtick, Backtick, Backtick>>

\* an Action block as the prompt protocol writes it, around the text c
Block(c) == <<"Action", ":", "\n">> \o Fence \o <<"json", "\n">> \o c \o <<"\n">> \o Fence \o <<"\n">>

Member(key, val) == <<DQToken(key), ":", " ">> \o val

BlockContents ==
    { <<"{">> \o Member("action", <<"\"X\"">>) \o <<",", " ">> \o Member("action_input", <<"\"p\"">>) \o <<"}">>,
      <<"{">> \o Member("action", <<"\"X\"">>) \o <<",", " ">> \o Member("action_input", <<"\"\"">>) \o <<"}">>,
      <<"{">> \o Member("action", <<"\"X\"">>) \o <<",", " ">> \o Member("action_input", <<"null">>) \o <<"}">>,
      <<"{">> \o Member("action", <<"\"X\"">>) \o <<",", " ">> \o Member("action_input", <<"{", "}">>) \o <<"}">>,
      <<"{">> \o Member("action", <<"\"X\"">>) \o <<"}">>,
      <<"{">> \o Member("action_input", <<"\"p\"">>) \o <<"}">>,
      <<"{">> \o Member("action", <<"\"\"">>) \o <<",", " ">> \o Member("action_input", <<"\"p\"">>) \o <<"}">>,
      <<"[", "1", "]">>,
      <<"\"X\"">>,
      <<"1">>,
      <<"null">>,
      <<"x", " ", "x">> }

Parts ==
    {<<"x">>, <<" ">>, <<FinalAnswerMarker>>}
    \cup {Block(c) : c \in BlockContents}
    \cup {<<"Action", ":", " ">> \o Fence \o <<"json">> \o Member("action", <<"\"X\"">>)}

ParseInputs == {Flatten(ps) : ps \in UNION {[1..n -> Parts] : n \in 0..MaxParts}}

FuzzAlphabet == {"[", "]", "{", "}", ":", ",", "1", "x", "'a'"}
Fuzz == UNION {[1..n -> FuzzAlphabet] : n \in 0..MaxLen}

HereIsYourAnswer == <<"Here", " ", "is", " ", "your", " ", "answer", ":", " ">>
TheResultIs42 == <<"The", " ", "result", " ", "is", " ", "4", "2">>
ObjectWithArray ==
    <<"{", "'a'", ":", " ", "1", ",", " ", "'b'", ":", " ", "[", "1", ",", "2", ",", "3", "]", "}">>

Fragments ==
    { <<>>,
      <<"[", "1", "]">>,
      <<"[", "x", "]">>,
      <<"[", "'a'", ",", " ", "1", "]">>,
      <<"{", "}">>,
      <<"{", "\"a\"", ":", " ", "1", "}">>,
      <<"{", "'a'", ":", " ", "1", "}">>,
      <<"{", "1", ",", " ", "2", "}">>,
      <<"{", "x", "}">>,
      ObjectWithArray,
      Fence \o <<"json", "\n", "[", "1", "]", "\n">> \o Fence }

Corpus ==
    {TheResultIs42}
    \cup {Flatten(<<p, f, m, g>>) :
            p \in {<<>>, HereIsYourAnswer}, f \in Fragments, m \in {<<>>, <<" ">>}, g \in Fragments}

\* the JSON values of a given number of nodes
Scalars == {NoneV, Bool("true"), Bool("false"), Int("1"), Str("a"), Str("")}
KeyNames == <<"a", "b", "X", "p">>

RECURSIVE ValuesOfSize(_)
RECURSIVE SeqsOfSize(_)
SeqsOfSize(n) ==
    IF n = 0 THEN {<<>>}
    ELSE UNION {{<<v>> \o rest : v \in ValuesOfSize(k), rest \in SeqsOfSize(n - k)} : k \in 1..n}

ValuesOfSize(n) ==
    (IF n = 1 THEN Scalars ELSE {})
    \cup {List(items) : items \in SeqsOfSize(n - 1)}
    \cup {Dict([i \in 1..Len(items) |-> Pair(Str(KeyNames[i]), items[i])]) :
             items \in {q \in SeqsOfSize(n - 1) : Len(q) <= Len(KeyNames)}}

JsonValues == UNION {ValuesOfSize(n) : n \in 1..MaxNodes}

(***************************************************************************)
(* The specifications                                                      *)
(***************************************************************************)
NoOutcome == Outcome("none", NoneV, "", 0)

ParseIdle == text = <<>> /\ decision = NoDecision
QueryIdle == output_raw = <<>> /\ payload = Absent /\ parsed = NoOutcome /\ response = NoResponse
HQIdle ==
    /\ pc = [r \in Requests |-> "done"]
    /\ attachments = [r \in Requests |-> <<>>]
    /\ cursor = [r \in Requests |-> 1]
    /\ file_paths = [r \in Requests |-> <<>>]
    /\ attempt = [r \in Requests |-> 0]
    /\ disk = [p \in Paths |-> NoFile]

\* concurrent handle_query calls
Init == ParseIdle /\ QueryIdle /\ HQInit

Next ==
    \/ \E r \in Requests : SkipAttachment(r) /\ UNCHANGED <<parseVars, queryVars>>
    \/ \E r \in Requests : OpenAttachment(r) /\ UNCHANGED <<parseVars, queryVars>>
    \/ \E r \in Requests : WriteAttachment(r) /\ UNCHANGED <<parseVars, queryVars>>
    \/ \E r \in Requests : BuildAgent(r) /\ UNCHANGED <<parseVars, queryVars>>
    \/ \E r \in Requests : InvokeAgent(r) /\ UNCHANGED <<parseVars, queryVars>>
    \/ \E r \in Requests : AgentReturns(r) /\ UNCHANGED <<parseVars, queryVars>>
    \/ \E r \in Requests : AgentRateLimited(r) /\ UNCHANGED <<parseVars, queryVars>>
    \/ \E r \in Requests : AgentFails(r) /\ UNCHANGED <<parseVars, queryVars>>
    \/ \E r \in Requests : CheckExists(r) /\ UNCHANGED <<parseVars, queryVars>>
    \/ \E r \in Requests : RemoveFile(r) /\ UNCHANGED <<parseVars, queryVars>>
    \/ \E r \in Requests : ReturnResult(r) /\ UNCHANGED <<parseVars, queryVars>>

Spec == Init /\ [][Next]_vars

\* the parser on one utterance
ParseInit ==
    /\ text \in ParseInputs
    /\ decision = NoDecision
    /\ QueryIdle /\ HQIdle

Parse ==
    /\ decision = NoDecision
    /\ decision' = parse(text)
    /\ UNCHANGED <<text, queryVars, hqVars>>

ParseNext == Parse

SpecParse == ParseInit /\ [][ParseNext]_vars

\* run_query on the terminal string of one agent run
QueryInit ==
    /\ \/ /\ payload = Absent
          /\ output_raw \in Fuzz
       \/ /\ payload = Absent
          /\ output_raw \in Corpus
       \/ /\ payload \in JsonValues
          /\ output_raw = Dumps(payload)
    /\ parsed = NoOutcome
    /\ response = NoResponse
    /\ ParseIdle /\ HQIdle

RunQuery ==
    /\ parsed = NoOutcome
    /\ parsed' = try_extract_json_from_text(output_raw)
    /\ response' = respond(output_raw, parsed')
    /\ UNCHANGED <<output_raw, payload, parseVars, hqVars>>

QueryNext == RunQuery

SpecQuery == QueryInit /\ [][QueryNext]_vars

(***************************************************************************)
(* The parser (SpecParse)                                                  *)
(***************************************************************************)
HasMarker(t) == \E i \in 1..Len(t) : t[i] = FinalAnswerMarker
LastMarker(t) ==
    CHOOSE i \in 1..Len(t) :
        t[i] = FinalAnswerMarker /\ \A j \in (i + 1)..Len(t) : t[j] # FinalAnswerMarker

\* the JSON object of the text's action block, when it has one
BlockLoaded(t) == json_loads(Strip(action_json_match(t).group))
HasObjectBlock(t) ==
    action_json_match(t).found /\ BlockLoaded(t).kind = "return" /\ BlockLoaded(t).v.k = "dict"

\* C1: parse never raises: whatever the text (a malformed action block, a
\* block that is JSON but no object, a block that lacks a field), parse
\* returns a decision, and when no well-formed action is found the decision
\* is Finish with the whole text, stripped.
C1_ParseIsTotal ==
    decision # NoDecision =>
        /\ decision.kind \in {"Finish", "Action"}
        /\ (decision.kind = "Finish" /\ ~HasMarker(text)) => decision.output = Strip(text)

\* C2: a text that contains the marker "Final Answer:" is classified Finish,
\* the output being the stripped text after the last marker, also when the
\* text holds a well-formed action block; no Action is returned for it.
C2_FinalAnswerWins ==
    (decision # NoDecision /\ HasMarker(text)) =>
        decision = AgentFinish(Strip(SubSeq(text, LastMarker(text) + 1, Len(text))))

\* C2's case: marker and well-formed action block in one text
C2_Witness ==
    /\ decision.kind = "Finish"
    /\ decision.output # <<>>
    /\ HasMarker(text)
    /\ HasObjectBlock(text)
    /\ parse_action(text, Strip(action_json_match(text).group)).kind = "Action"

Done == parsed # NoOutcome

\* what a span yields: its strict parse, else its relaxed parse
SpanParse(span) ==
    IF json_loads(span).kind = "return" THEN json_loads(span) ELSE literal_eval(span)
ArraySpan(s) == re_search(s, "[", "]")
ObjectSpan(s) == re_search(s, "{", "}")

\* C4: _try_extract_json_from_text never raises: a candidate that fails to
\* parse is skipped, and the function returns a value or None.
C4_NeverRaises == parsed.kind # "raise"

\* C5, as claimed: for every JSON value V, the recoverer on the
\* serialization of V returns V at step 1, and run_query responds with V
\* itself, not with the {"output": ...} fallback.
C5_RoundTripEveryValue ==
    (Done /\ payload # Absent) =>
        /\ parsed = Outcome("return", payload, "", 1)
        /\ response = Response(200, payload)

\* C5, amended: for every JSON value V other than null (object, array,
\* string, number, boolean), the recoverer on the serialization of V
\* returns V at step 1, and run_query responds with V itself, not with the
\* {"output": ...} fallback.
C5_RoundTripNonNull ==
    (Done /\ payload # Absent /\ payload # NoneV) =>
        /\ parsed = Outcome("return", payload, "", 1)
        /\ response = Response(200, payload)

\* C5's case: a nested value made the round trip
C5_Witness ==
    /\ payload.k = "dict"
    /\ \E i \in 1..Len(payload.items) : payload.items[i].items[2].k = "list"
    /\ parsed.step = 1
    /\ response = Response(200, payload)

C6Input == HereIsYourAnswer \o ObjectWithArray
C6Object ==
    Dict(<<Pair(Str("a"), Int("1")),
           Pair(Str("b"), List(<<Int("1"), Int("2"), Int("3")>>))>>)

\* C6: on "Here is your answer: {'a': 1, 'b': [1,2,3]}" the recoverer
\* returns the whole object {"a": 1, "b": [1, 2, 3]}, not a fragment of it.
C6_WholeObject ==
    (Done /\ output_raw = C6Input) => (parsed.kind = "return" /\ parsed.v = C6Object)

BothSpans(s) == ArraySpan(s) # <<>> /\ ObjectSpan(s) # <<>>

\* C7, as claimed: when steps 1 and 2 fail and the string has a [...] span
\* and a {...} span, the result is the array span's: its value, and when the
\* array span does not parse the object span does not supply the result.
C7_ArrayOnly ==
    (parsed.step \in {3, 4} /\ BothSpans(output_raw)) =>
        IF SpanParse(ArraySpan(output_raw)).kind = "return"
        THEN parsed = Outcome("return", SpanParse(ArraySpan(output_raw)).v, "", 3)
        ELSE parsed = Outcome("return", NoneV, "", 4)

\* C7, amended: when steps 1 and 2 fail and the string has a [...] span and
\* a {...} span, step 3 returns the value of the array span whenever that
\* span parses (strictly or as a literal); when it does not, the object span
\* supplies the result if it parses, and otherwise nothing is recovered.
C7_ArrayFirst ==
    (parsed.step \in {3, 4} /\ BothSpans(output_raw)) =>
        IF SpanParse(ArraySpan(output_raw)).kind = "return"
        THEN parsed = Outcome("return", SpanParse(ArraySpan(output_raw)).v, "", 3)
        ELSE IF SpanParse(ObjectSpan(output_raw)).kind = "return"
        THEN parsed = Outcome("return", SpanParse(ObjectSpan(output_raw)).v, "", 3)
        ELSE parsed = Outcome("return", NoneV, "", 4)

\* C7's case: both spans parse, to different values, and the array's is returned
C7_Witness ==
    /\ parsed.step = 3
    /\ BothSpans(output_raw)
    /\ SpanParse(ArraySpan(output_raw)).kind = "return"
    /\ SpanParse(ObjectSpan(output_raw)).kind = "return"
    /\ SpanParse(ObjectSpan(output_raw)).v # SpanParse(ArraySpan(output_raw)).v
    /\ parsed.v = SpanParse(ArraySpan(output_raw)).v

\* C8: what the recoverer returns is None or a value JSON can carry, and a
\* value of step 3 is a dict or a list, never a set or a tuple.
C8_JsonCompatible ==
    parsed.kind = "return" =>
        /\ Serializable(parsed.v)
        /\ parsed.step = 3 => parsed.v.k \in {"dict", "list"}

(***************************************************************************)
(* The attachment files (Spec)                                             *)
(***************************************************************************)
SavedNames(r) ==
    {attachments[r][i].filename : i \in {j \in 1..Len(attachments[r]) : Saves(attachments[r][j])}}

DistinctFilenames ==
    \A r1, r2 \in Requests : r1 # r2 => SavedNames(r1) \cap SavedNames(r2) = {}

FileAt(r, i) == disk[path_of(file_paths[r][i])]

\* C9: every file handle_query wrote is gone when it ends, however it ends:
\* by return, by an agent error, by the rate limit after the last attempt.
C9_FilesRemovedAtEnd ==
    \A r \in Requests :
        pc[r] \in {"done", "raised"} =>
            \A i \in 1..Len(file_paths[r]) : ~(FileAt(r, i).exists /\ FileAt(r, i).owner = r)

\* C10: with distinct filenames two concurrent handle_query calls do not
\* interfere: while a request's agent runs, each of its attachments is at
\* its path, whole, with the bytes that request wrote.  (With one filename
\* they do: C10_Witness.)
C10_DistinctFilenamesIsolated ==
    DistinctFilenames =>
        \A r \in Requests :
            pc[r] = "agent" =>
                /\ {file_paths[r][i] : i \in 1..Len(file_paths[r])} = SavedNames(r)
                /\ \A i \in 1..Len(file_paths[r]) :
                       FileAt(r, i) = File(r, FileAt(r, i).att, TRUE)

\* C10's case: a request's agent runs while its attachment path holds the
\* other request's bytes, or nothing since the other request's cleanup
C10_Witness ==
    /\ ~DistinctFilenames
    /\ \E r \in Requests : \E i \in 1..Len(file_paths[r]) :
          /\ pc[r] = "agent"
          /\ \/ FileAt(r, i).exists /\ FileAt(r, i).owner \in Requests \ {r}
             \/ ~FileAt(r, i).exists /\ \E o \in Requests \ {r} : pc[o] \in {"cleanup", "done"}

====
